---- MODULE Spec2Model ----
(***************************************************************************)
(* A model of scripts/fetch_from_notion.py: the recursive export of a      *)
(* Notion page tree into Markdown and CSV files.                           *)
(*                                                                         *)
(* Strings are sequences of tokens (a token is one character, or an opaque *)
(* unit such as an identifier or a file extension); the empty string is    *)
(* <<>>.  A path is a sequence of segments, each segment a string.         *)
(***************************************************************************)
EXTENDS Integers, Sequences, FiniteSets, TLC

VARIABLES
    remote,   \* the shape of the remote hierarchy of this run
    stack,    \* the call stack of process_page / process_database frames
    files,    \* the local file system: path -> content
    dirs,     \* the local file system: the directories that exist
    aborted,  \* an exception reached main(): the run ended with a traceback
    raised,   \* history: the exceptions raised so far, as <<kind, node>>
    calls,    \* history: node -> number of process_page/process_database calls
    writes,   \* history: node -> number of times its .md file was written
    unstable, \* history: a second listing differed from the rendered one
    arg,      \* the input of an operation exercised on its own
    ret,      \* the values returned so far by the operation exercised
    net       \* the number of remote requests the operation issued

vars == <<remote, stack, files, dirs, aborted, raised, calls, writes, unstable,
          arg, ret, net>>

runVars == <<remote, stack, aborted, raised, calls, writes, unstable>>

-----------------------------------------------------------------------------
(* Bounds of the model *)

MaxRecords == 2
MaxPages == 3
MaxItems == 2
MaxFetches == 2
MaxCsvRecords == 2

-----------------------------------------------------------------------------
(* Strings and paths *)

Reverse(s) == [i \in 1..Len(s) |-> s[Len(s) + 1 - i]]

RECURSIVE Flatten(_)
Flatten(ss) == IF ss = <<>> THEN <<>> ELSE Head(ss) \o Flatten(Tail(ss))

RECURSIVE Join(_, _)
Join(sep, ss) ==
    IF ss = <<>> THEN <<>>
    ELSE IF Len(ss) = 1 THEN Head(ss)
    ELSE Head(ss) \o sep \o Join(sep, Tail(ss))

\* str.split("/"): the pieces between the separators, empty pieces kept
RECURSIVE SplitAcc(_, _, _)
SplitAcc(s, sep, cur) ==
    IF s = <<>> THEN <<cur>>
    ELSE IF Head(s) = sep THEN <<cur>> \o SplitAcc(Tail(s), sep, <<>>)
    ELSE SplitAcc(Tail(s), sep, Append(cur, Head(s)))

Split(s, sep) == SplitAcc(s, sep, <<>>)

Whitespace == {" "}

RECURSIVE LStrip(_)
LStrip(s) == IF s # <<>> /\ Head(s) \in Whitespace THEN LStrip(Tail(s)) ELSE s

Strip(s) == Reverse(LStrip(Reverse(LStrip(s))))

\* the character class [<>:"/\|?*] of both regular expressions
UnsafeChars == {"<", ">", ":", "\"", "/", "\\", "|", "?", "*"}

RemoveHyphens(s) == SelectSeq(s, LAMBDA c : c # "-")

\* re.sub(r'[<>:"/\\|?*]', '', name).strip()
sanitize_filename(name) == Strip(SelectSeq(name, LAMBDA c : c \notin UnsafeChars))

\* pathlib: p / name; joining the empty string leaves the path as it is
PathJoin(p, name) == IF name = <<>> THEN p ELSE Append(p, name)

Prefixes(p) == {SubSeq(p, 1, k) : k \in 1..Len(p)}

\* Path.mkdir(parents=True, exist_ok=True)
Mkdir(ds, p) == ds \cup Prefixes(p)

WriteFile(fs, p, content) ==
    [q \in (DOMAIN fs) \cup {p} |-> IF q = p THEN content ELSE fs[q]]

OUTPUT_DIR == << <<"root_page">> >>

DOWNLOAD_IMAGES == TRUE

-----------------------------------------------------------------------------
(* Property Value Extractor *)

(* A property object is [type, sub, has, val]: type is prop["type"] ("None" *)
(* when the object has no "type" key), sub the "type" of a formula or rollup*)
(* value, has tells whether the value field named after the type is         *)
(* "missing" (no such key), "null" (None) or "val" (present), and val is    *)
(* the value as a sequence of strings (text runs, option names, ...).       *)

PropTypes == {"title", "rich_text", "number", "select", "multi_select", "status",
              "date", "people", "checkbox", "url", "email", "phone_number",
              "formula", "relation", "rollup", "created_time", "created_by",
              "last_edited_time", "last_edited_by", "files"}

Presence == {"missing", "null", "val"}

EmptyProp == [type |-> "None", sub |-> "", has |-> "missing", val |-> <<>>]

Returns(s) == [raised |-> FALSE, value |-> s]
Raises == [raised |-> TRUE, value |-> <<>>]

CHECKED == <<"[x]box">>
UNCHECKED == <<"[ ]box">>

First10(s) == SubSeq(s, 1, IF Len(s) < 10 THEN Len(s) ELSE 10)

Count(n, unit) == <<"(", ToString(n), " ", unit, ")">>

\* prop.get(key, default) iterated, indexed or measured: None is not iterable
ListOrRaise(prop, onDefault, onValue) ==
    CASE prop.has = "missing" -> Returns(onDefault)
      [] prop.has = "null" -> Raises
      [] OTHER -> Returns(onValue)

\* x = prop.get(key); "... if x else ''" and "num is not None"
ValueOrEmpty(prop, onValue) ==
    IF prop.has = "val" /\ prop.val # <<>> THEN Returns(onValue) ELSE Returns(<<>>)

\* prop.get(key, {}) followed by .get(...): None has no attribute get
DictOrRaise(prop, onValue) ==
    CASE prop.has = "missing" -> Returns(<<>>)
      [] prop.has = "null" -> Raises
      [] OTHER -> Returns(onValue)

FirstOf(v) == IF v = <<>> THEN <<>> ELSE v[1]
DateRange(v) ==
    IF Len(v) >= 2 /\ v[2] # <<>> THEN v[1] \o <<" -> ">> \o v[2] ELSE FirstOf(v)
CommaJoin(v) == Join(<<",", " ">>, v)
PeopleNames(v) == Join(<<",", " ">>, SelectSeq(v, LAMBDA x : x # <<>>))
NameOrId(v) == IF v = <<>> THEN <<>> ELSE IF v[1] # <<>> THEN v[1]
               ELSE IF Len(v) >= 2 THEN v[2] ELSE <<>>
ItemCount(v) == Count(Len(v), "items")
FileCount(v) == Count(Len(v), "files")
DatePart(v) == IF v = <<>> THEN <<>> ELSE First10(v[1])
IsTrue(prop) == prop.has = "val" /\ prop.val = << <<"true">> >>

FormulaValue(prop) ==
    CASE prop.sub = "string" -> IF prop.val = <<>> THEN <<>> ELSE prop.val[1]
      [] prop.sub = "number" -> IF prop.val = <<>> THEN <<>> ELSE prop.val[1]
      [] prop.sub = "boolean" -> IF prop.val = << <<"true">> >> THEN CHECKED ELSE UNCHECKED
      [] prop.sub = "date" -> IF prop.val = <<>> THEN <<>> ELSE prop.val[1]
      [] OTHER -> <<>>

RollupValue(prop) ==
    CASE prop.sub = "number" -> IF prop.val = <<>> THEN <<>> ELSE prop.val[1]
      [] prop.sub = "array" -> Count(Len(prop.val), "items")
      [] OTHER -> <<>>

Placeholder(prop) == Returns(<<"[", prop.type, "]">>)

CheckboxValue(prop) == Returns(IF IsTrue(prop) THEN CHECKED ELSE UNCHECKED)

extract_property_value(prop) ==
    CASE prop.type \in {"title", "rich_text"} -> ListOrRaise(prop, <<>>, Flatten(prop.val))
      [] prop.type = "number" -> ValueOrEmpty(prop, FirstOf(prop.val))
      [] prop.type \in {"select", "status"} -> ValueOrEmpty(prop, FirstOf(prop.val))
      [] prop.type = "multi_select" -> ListOrRaise(prop, <<>>, CommaJoin(prop.val))
      [] prop.type = "date" -> ValueOrEmpty(prop, DateRange(prop.val))
      [] prop.type = "people" -> ListOrRaise(prop, <<>>, PeopleNames(prop.val))
      [] prop.type = "checkbox" -> CheckboxValue(prop)
      [] prop.type \in {"url", "email", "phone_number"} ->
            ValueOrEmpty(prop, FirstOf(prop.val))
      [] prop.type = "formula" -> DictOrRaise(prop, FormulaValue(prop))
      [] prop.type = "relation" -> ListOrRaise(prop, ItemCount(<<>>), ItemCount(prop.val))
      [] prop.type = "rollup" -> DictOrRaise(prop, RollupValue(prop))
      [] prop.type \in {"created_time", "last_edited_time"} ->
            ListOrRaise(prop, <<>>, DatePart(prop.val))
      [] prop.type \in {"created_by", "last_edited_by"} ->
            DictOrRaise(prop, NameOrId(prop.val))
      [] prop.type = "files" -> ListOrRaise(prop, FileCount(<<>>), FileCount(prop.val))
      [] OTHER -> Placeholder(prop)

-----------------------------------------------------------------------------
(* Cursor-based listings of the remote API *)

(* A listing source is a sequence of responses [results, has_more,          *)
(* next_cursor]; a cursor is an index into it and start_cursor=None is 1.   *)

Response(items, more, next) == [results |-> items, has_more |-> more, next_cursor |-> next]

\* a list cut into responses of at most size items each
RECURSIVE Paginate(_, _, _)
Paginate(items, size, at) ==
    IF Len(items) <= size THEN <<Response(items, FALSE, 0)>>
    ELSE <<Response(SubSeq(items, 1, size), TRUE, at + 1)>>
         \o Paginate(SubSeq(items, size + 1, Len(items)), size, at + 1)

\* the while loop of get_page_children, get_page_comments and process_database
RECURSIVE Drain(_, _)
Drain(src, cursor) ==
    LET response == src[cursor]
    IN  response.results \o
        (IF ~response.has_more THEN <<>> ELSE Drain(src, response.next_cursor))

get_page_children(src) == Drain(src, 1)

comments_list(src) == Drain(src, 1)

databases_query(src) == Drain(src, 1)

\* convert_table_block: one blocks.children.list call, its results taken as the rows
table_rows(src) == src[1].results

\* convert_table_block on the rows listed: one line per table_row, a separator
\* after the row at index 0 of the listing
RECURSIVE TableLines(_, _)
TableLines(rows, i) ==
    IF i > Len(rows) THEN <<>>
    ELSE (IF rows[i].type # "table_row" THEN <<>>
          ELSE <<[line |-> "row", item |-> rows[i].item]>>
               \o (IF i = 1 THEN <<[line |-> "separator", item |-> 0]>> ELSE <<>>))
         \o TableLines(rows, i + 1)

convert_table_block(src, ok) ==
    IF ~ok THEN <<[line |-> "[Table conversion error]", item |-> 0]>>
    ELSE IF table_rows(src) = <<>> THEN <<[line |-> "[Empty Table]", item |-> 0]>>
    ELSE TableLines(table_rows(src), 1)


-----------------------------------------------------------------------------
(* Asset Fetcher *)

(* A URL is [host, path]: path is the string urlparse(url).path, with the   *)
(* tokens "%3A", "%2F" and "%20" standing for percent-encoded characters.   *)

UrlStr(url) == <<url.host>> \o url.path

unquote(s) ==
    [i \in 1..Len(s) |->
        CASE s[i] = "%3A" -> ":"
          [] s[i] = "%2F" -> "/"
          [] s[i] = "%20" -> " "
          [] OTHER -> s[i]]

\* hashlib.md5(url.encode()).hexdigest()[:12]
Md5Prefix(url) == <<"md5">> \o UrlStr(url)

\* re.sub(r'[<>:"/\\|?*]', '_', original_name)
safe_name(name) == [i \in 1..Len(name) |-> IF name[i] \in UnsafeChars THEN "_" ELSE name[i]]

image_filename(url) ==
    LET path_parts == Split(url.path, "/")
        n == Len(path_parts)
        image_uuid == IF n >= 2 THEN path_parts[n - 1] ELSE Md5Prefix(url)
        original_name == IF n >= 2 THEN unquote(path_parts[n]) ELSE <<"image.png">>
    IN  image_uuid \o <<"_">> \o safe_name(original_name)

LocalImagePath(url) == <<"images", "/">> \o image_filename(url)

ImagesAtExportRoot(output_dir) == PathJoin(OUTPUT_DIR, <<"images">>)
images_dir(output_dir) == PathJoin(output_dir, <<"images">>)

Binary(url) == [kind |-> "bin", data |-> UrlStr(url)]

AlwaysDownload(url, output_dir, fs, ds, ok) ==
    LET image_path == PathJoin(images_dir(output_dir), image_filename(url))
    IN  IF ok
        THEN [ret |-> LocalImagePath(url), files |-> WriteFile(fs, image_path, Binary(url)),
              dirs |-> Mkdir(ds, images_dir(output_dir)), issued |-> TRUE, wrote |-> TRUE]
        ELSE [ret |-> UrlStr(url), files |-> fs,
              dirs |-> Mkdir(ds, images_dir(output_dir)), issued |-> TRUE, wrote |-> FALSE]

\* download_image(url, output_dir) on the file system <<fs, ds>>; ok is whether
\* requests.get and raise_for_status succeed when the download is issued
download_image(url, output_dir, fs, ds, ok) ==
    LET image_path == PathJoin(images_dir(output_dir), image_filename(url))
        made == Mkdir(ds, images_dir(output_dir))
    IN  IF image_path \in DOMAIN fs
        THEN [ret |-> LocalImagePath(url), files |-> fs, dirs |-> made,
              issued |-> FALSE, wrote |-> FALSE]
        ELSE IF ok
        THEN [ret |-> LocalImagePath(url), files |-> WriteFile(fs, image_path, Binary(url)),
              dirs |-> made, issued |-> TRUE, wrote |-> TRUE]
        ELSE [ret |-> UrlStr(url), files |-> fs, dirs |-> made,
              issued |-> TRUE, wrote |-> FALSE]

-----------------------------------------------------------------------------
(* Block Renderer *)

(* A block is [type, id, title, url, hosted, rows]: id names the node a     *)
(* child_page or child_database block refers to, title is its title field   *)
(* (or the text of a text block), url and hosted ("file" or "external")     *)
(* describe an image, rows is the listing source of a table's child rows.   *)
(* The text blocks (paragraph, headings, list items, to_do, toggle, code,   *)
(* quote, divider, callout, bookmark) differ in markup only: "paragraph"    *)
(* stands for them.                                                         *)

Block(type, id, title) ==
    [type |-> type, id |-> id, title |-> title, url |-> [host |-> "", path |-> <<>>],
     hosted |-> "", rows |-> <<>>]

ImageBlock(hosted, url) ==
    [type |-> "image", id |-> <<>>, title |-> <<>>, url |-> url, hosted |-> hosted,
     rows |-> <<>>]

TableBlock(id, src) ==
    [type |-> "table", id |-> id, title |-> <<>>, url |-> [host |-> "", path |-> <<>>],
     hosted |-> "", rows |-> src]

Fragment(kind, label, target) ==
    [kind |-> kind, label |-> label, target |-> target, lines |-> <<>>]

link_path(parent_title, title, child_id, ext) ==
    sanitize_filename(parent_title) \o <<"/">> \o sanitize_filename(title)
        \o <<"%20">> \o child_id \o <<ext>>

\* block_to_markdown(block, output_dir, parent_title) on the file system
\* <<fs, ds>>: the fragment rendered and the file system it leaves
block_to_markdown(block, output_dir, parent_title, fs, ds, ok) ==
    LET same(frag) == [md |-> frag, files |-> fs, dirs |-> ds]
        child_id == RemoveHyphens(block.id)
    IN  CASE block.type = "paragraph" -> same(Fragment("text", block.title, <<>>))
          [] block.type = "child_page" ->
                IF parent_title # <<>> /\ child_id # <<>>
                THEN same(Fragment("page_link", block.title,
                                   link_path(parent_title, block.title, child_id, ".md")))
                ELSE same(Fragment("page_label", block.title, <<>>))
          [] block.type = "child_database" ->
                IF parent_title # <<>> /\ child_id # <<>>
                THEN same(Fragment("database_link", block.title,
                                   link_path(parent_title, block.title, child_id, ".csv")))
                ELSE same(Fragment("database_label", block.title, <<>>))
          [] block.type = "image" ->
                IF block.hosted = "external"
                THEN same(Fragment("image", <<>>, UrlStr(block.url)))
                ELSE IF DOWNLOAD_IMAGES /\ output_dir # <<>> /\ UrlStr(block.url) # <<"">>
                THEN LET got == download_image(block.url, output_dir, fs, ds, ok)
                     IN  [md |-> Fragment("image", <<>>, got.ret),
                          files |-> got.files, dirs |-> got.dirs]
                ELSE same(Fragment("image", <<>>, UrlStr(block.url)))
          [] block.type = "table" ->
                same([kind |-> "table", label |-> <<>>, target |-> <<>>,
                      lines |-> convert_table_block(block.rows, ok)])
          [] OTHER -> same(Fragment("placeholder", <<"[", block.type, "]">>, <<>>))

\* fetch_page_content on the listed blocks, block i and later; dl[i] is the
\* outcome of the request block i issues, if it issues one (the download of an
\* image, the row listing of a table)
RECURSIVE RenderBlocks(_, _, _, _, _, _, _)
RenderBlocks(blocks, i, output_dir, parent_title, fs, ds, dl) ==
    IF i > Len(blocks) THEN [body |-> <<>>, files |-> fs, dirs |-> ds]
    ELSE LET one == block_to_markdown(blocks[i], output_dir, parent_title, fs, ds, dl[i])
             rest == RenderBlocks(blocks, i + 1, output_dir, parent_title,
                                  one.files, one.dirs, dl)
         IN  [body |-> <<one.md>> \o rest.body, files |-> rest.files, dirs |-> rest.dirs]

fetch_page_content(blocks, output_dir, parent_title, fs, ds, dl) ==
    RenderBlocks(blocks, 1, output_dir, parent_title, fs, ds, dl)


-----------------------------------------------------------------------------
(* Page title, property table, comments, tabular export *)

TitleProp(runs) == [type |-> "title", sub |-> "", has |-> "val", val |-> runs]

Prop(type, v) == [type |-> type, sub |-> "", has |-> "val", val |-> << v >>]

Field(name, prop) == [name |-> name, prop |-> prop]

UNTITLED == <<"Untitled">>

\* get_page_title: the first text run of the first title property that has one
RECURSIVE TitleFrom(_)
TitleFrom(props) ==
    IF props = <<>> THEN UNTITLED
    ELSE IF Head(props).prop.type = "title" /\ Head(props).prop.has = "val"
            /\ Head(props).prop.val # <<>>
         THEN Head(props).prop.val[1]
         ELSE TitleFrom(Tail(props))

get_page_title(page) == TitleFrom(page.properties)

\* record.get("properties", {}).get(name, {})
RECURSIVE Lookup(_, _)
Lookup(props, name) ==
    IF props = <<>> THEN EmptyProp
    ELSE IF Head(props).name = name THEN Head(props).prop
    ELSE Lookup(Tail(props), name)

EscapePipes(s) ==
    Flatten([i \in 1..Len(s) |-> IF s[i] = "|" THEN <<"\\", "|">> ELSE <<s[i]>>])

\* the order of str on the property names of the model
LexOrder == << <<"Name">>, <<"Num">>, <<"T", "|">> >>

\* get_page_properties_markdown: the header and value rows, as name/value
\* pairs sorted by name; <<>> when no property has a value
get_page_properties_markdown(page) ==
    LET shown(f) == f.prop.type # "title" /\ extract_property_value(f.prop).value # <<>>
        item(f) == [name |-> EscapePipes(f.name),
                    value |-> EscapePipes(extract_property_value(f.prop).value)]
        at(name) == LET fs == SelectSeq(page.properties,
                                        LAMBDA f : f.name = name /\ shown(f))
                    IN  IF fs = <<>> THEN <<>> ELSE <<item(fs[1])>>
    IN  Flatten([k \in 1..Len(LexOrder) |-> at(LexOrder[k])])

\* get_page_comments: the comment bodies rendered, "" when the listing raises
get_page_comments(src, ok) == IF ok THEN comments_list(src) ELSE <<>>

\* export_database_to_csv: the column names, the title property first
csv_headers(first_record) ==
    LET props == first_record.properties
        others == SelectSeq(props, LAMBDA f : f.prop.type # "title")
        titles == SelectSeq(props, LAMBDA f : f.prop.type = "title")
        names(fs) == [i \in 1..Len(fs) |-> fs[i].name]
    IN  (IF titles # <<>> /\ titles[Len(titles)].name # <<>>
         THEN <<titles[Len(titles)].name>> ELSE <<>>) \o names(others)

csv_cell(record, name) == extract_property_value(Lookup(record.properties, name)).value

csv_row(record, headers) == [i \in 1..Len(headers) |-> csv_cell(record, headers[i])]

csv_filename(title, db_id) == sanitize_filename(title) \o <<" ">> \o db_id \o <<".csv">>

SkipFirstRecord(records, headers) ==
    [i \in 1..(Len(records) - 1) |-> csv_row(records[i + 1], headers)]
csv_rows(records, headers) == [i \in 1..Len(records) |-> csv_row(records[i], headers)]

export_database_to_csv(records, title, db_id, output_path, fs) ==
    IF records = <<>> THEN fs
    ELSE LET headers == csv_headers(records[1])
         IN  WriteFile(fs, PathJoin(output_path, csv_filename(title, db_id)),
                       [kind |-> "csv", header |-> headers,
                        rows |-> csv_rows(records, headers)])


-----------------------------------------------------------------------------
(* The remote hierarchy of the run *)

(* A root page R with three nested nodes in a row: the page A (which holds   *)
(* the page E), the database D (remote.nrec records) and the page B.         *)
(* remote.dbTitled: D has a title; remote.splitTitle: the title of A is two  *)
(* text runs rather than one.                                               *)

RecName == <<"X1", "X2", "X3", "X4">>

ListPageSize == 2

PageNodes == {"R", "A", "E", "B"}
RecordNodes == {RecName[i] : i \in 1..MaxRecords}
Nodes == PageNodes \cup {"D"} \cup RecordNodes

IdStr(n) == <<n, "-", "7", "-", "f">>
NodeOf(id) == id[1]

ROOT_PAGE_ID == IdStr("R")

TitleRuns(n) ==
    CASE n = "R" -> << <<" ", "R", ":", "t">> >>
      [] n = "A" -> IF remote.splitTitle THEN << <<"A">>, <<"a">> >> ELSE << <<"A", "a">> >>
      [] n = "E" -> << <<"E", "?">> >>
      [] n = "B" -> << <<"B">> >>
      [] n = "D" -> IF remote.dbTitled THEN << <<"D", "/", "b">> >> ELSE <<>>
      [] OTHER -> << <<n>> >>

\* the title field of a child_page / child_database block: the whole title
BlockTitle(n) == Flatten(TitleRuns(n))

IMG == [host |-> "https://s3", path |-> <<"/", "u", "1", "/", "a", "%3A", "b", ".png">>]

Blocks(n) ==
    CASE n = "R" -> << Block("paragraph", <<>>, <<"t">>),
                       Block("child_page", IdStr("A"), BlockTitle("A")),
                       Block("child_database", IdStr("D"), BlockTitle("D")),
                       Block("child_page", IdStr("B"), BlockTitle("B")),
                       ImageBlock("file", IMG) >>
      [] n = "A" -> << Block("child_page", IdStr("E"), BlockTitle("E")) >>
      [] n = "E" -> << ImageBlock("file", IMG) >>
      [] n = "B" -> << Block("synced_block", <<>>, <<>>),
                       TableBlock(<<"T", "-", "1">>,
                                  Paginate([k \in 1..3 |-> [type |-> "table_row", item |-> k]],
                                           ListPageSize, 1)) >>
      [] OTHER -> <<>>

IsChild(b) == b.type \in {"child_page", "child_database"}

\* blocks.children.list(block_id=n), as the responses of one drained listing
BlockSource(n) == Paginate(Blocks(n), ListPageSize, 1)

\* what a later listing of the same node may return: the same blocks, or the
\* blocks left after the nested nodes were moved away
Listings(n) == {Blocks(n), SelectSeq(Blocks(n), LAMBDA b : ~IsChild(b))}

Comments(n) == IF n = "R" THEN << <<"c", "1">>, <<"c", "2">>, <<"c", "3">> >> ELSE <<>>

CommentSource(n) == Paginate(Comments(n), ListPageSize, 1)

RecordIndex(n) == CHOOSE i \in 1..Len(RecName) : RecName[i] = n

RecordProps(i) ==
    << Field(<<"Num">>, Prop("number", <<ToString(i)>>)),
       Field(<<"Name">>, TitleProp(TitleRuns(RecName[i]))) >>
    \o (IF i % 2 = 1 THEN << Field(<<"T", "|">>, Prop("select", <<"a", "|", "b">>)) >>
        ELSE <<>>)

\* pages.retrieve(page_id=n), and one result of databases.query
Page(n) ==
    [id |-> IdStr(n),
     properties |-> IF n \in PageNodes THEN << Field(<<"title">>, TitleProp(TitleRuns(n))) >>
                    ELSE RecordProps(RecordIndex(n))]

\* databases.retrieve(database_id=n)
Database(n) == [id |-> IdStr(n), title |-> TitleRuns(n)]

RecordSource(n) ==
    Paginate([i \in 1..remote.nrec |-> Page(RecName[i])], ListPageSize, 1)


-----------------------------------------------------------------------------
(* Export Orchestrator: process_page and process_database *)

(* A frame is one call: fn ("page" or "db"), id, out (output_path), incl    *)
(* (include_properties), pc (where the call stands), title, and kids (the   *)
(* nested nodes or records the loop at the end of the call has yet to       *)
(* visit).  The last frame of the stack is the running call.                *)

Frame(fn, id, out, incl) ==
    [fn |-> fn, id |-> id, out |-> out, incl |-> incl, pc |-> "retrieve",
     title |-> <<>>, kids |-> <<>>]

Top == stack[Len(stack)]
Pop == SubSeq(stack, 1, Len(stack) - 1)
Running(fn, pc) == stack # <<>> /\ Top.fn = fn /\ Top.pc = pc

page_filename(title, page_id) ==
    sanitize_filename(title) \o <<" ">> \o RemoveHyphens(page_id) \o <<".md">>

RequestIdx(blocks) == {i \in 1..Len(blocks) : blocks[i].type \in {"image", "table"}}

Bump(f, n) == [f EXCEPT ![n] = @ + 1]

\* an exception no caller catches: every frame unwinds and main() ends with it
Abort(kind) ==
    /\ stack' = <<>>
    /\ aborted' = TRUE
    /\ raised' = raised \cup {<<kind, NodeOf(Top.id)>>}
    /\ UNCHANGED <<remote, files, dirs, calls, writes, unstable, arg, ret, net>>

PropagateRetrieveFailure(kind) == Abort(kind)
\* the except clause around pages.retrieve / databases.retrieve: log and return
CatchRetrieveFailure(kind) ==
    /\ stack' = Pop
    /\ raised' = raised \cup {<<kind, NodeOf(Top.id)>>}
    /\ UNCHANGED <<remote, files, dirs, aborted, calls, writes, unstable, arg, ret, net>>

\* pages.retrieve raises
process_page_retrieve_fails ==
    /\ Running("page", "retrieve")
    /\ CatchRetrieveFailure("meta")

\* pages.retrieve returns, the listing inside fetch_page_content raises
process_page_content_fails ==
    /\ Running("page", "retrieve")
    /\ Abort("content")

CountWrite(w, n) == [w EXCEPT ![n] = @ + 1]

\* pages.retrieve and the listing return: the blocks are rendered (images are
\* downloaded, table rows listed), the comments fetched, and the file written
process_page_write ==
    /\ Running("page", "retrieve")
    /\ LET n == NodeOf(Top.id)
           title == get_page_title(Page(n))
           filepath == PathJoin(Top.out, page_filename(title, Top.id))
           blocks == get_page_children(BlockSource(n))
       IN  \E dl \in [RequestIdx(blocks) -> BOOLEAN], cok \in BOOLEAN :
             LET content == fetch_page_content(blocks, Top.out, title, files, dirs,
                                [i \in 1..Len(blocks) |-> IF i \in RequestIdx(blocks)
                                                          THEN dl[i] ELSE TRUE])
                 markdown == [kind |-> "md", title |-> title,
                              properties |-> IF Top.incl
                                             THEN get_page_properties_markdown(Page(n))
                                             ELSE <<>>,
                              comments |-> get_page_comments(CommentSource(n), cok),
                              body |-> content.body]
             IN  /\ files' = WriteFile(content.files, filepath, markdown)
                 /\ dirs' = Mkdir(content.dirs, Top.out)
                 /\ writes' = CountWrite(writes, n)
                 /\ stack' = [stack EXCEPT ![Len(stack)].pc = "scan",
                                           ![Len(stack)].title = title]
    /\ UNCHANGED <<remote, aborted, raised, calls, unstable, arg, ret, net>>

\* the second listing, after the file is written, raises
process_page_scan_fails ==
    /\ Running("page", "scan")
    /\ Abort("scan")

\* the second listing returns: the nested nodes are picked from it and, when
\* there are any, their folder is made; with none the call returns
process_page_scan ==
    /\ Running("page", "scan")
    /\ \E blocks \in Listings(NodeOf(Top.id)) :
         LET child_pages == SelectSeq(blocks, IsChild)
             child_dir == PathJoin(Top.out, sanitize_filename(Top.title))
         IN  /\ unstable' = (unstable \/ blocks # Blocks(NodeOf(Top.id)))
             /\ IF child_pages # <<>>
                THEN /\ dirs' = Mkdir(dirs, child_dir)
                     /\ stack' = [stack EXCEPT ![Len(stack)].pc = "loop",
                                               ![Len(stack)].kids = child_pages]
                ELSE /\ dirs' = dirs
                     /\ stack' = Pop
    /\ UNCHANGED <<remote, files, aborted, raised, calls, writes, arg, ret, net>>

\* the body of the loop over the nested nodes or records: one call
Call(fn, child_dir, incl) ==
    /\ stack' = Append([stack EXCEPT ![Len(stack)].kids = Tail(@)],
                       Frame(fn, Head(Top.kids).id, child_dir, incl))
    /\ calls' = Bump(calls, NodeOf(Head(Top.kids).id))

process_page_recurse_page ==
    /\ Running("page", "loop")
    /\ Top.kids # <<>>
    /\ Head(Top.kids).type = "child_page"
    /\ Call("page", PathJoin(Top.out, sanitize_filename(Top.title)), FALSE)
    /\ UNCHANGED <<remote, files, dirs, aborted, raised, writes, unstable, arg, ret, net>>

process_page_recurse_database ==
    /\ Running("page", "loop")
    /\ Top.kids # <<>>
    /\ Head(Top.kids).type = "child_database"
    /\ Call("db", PathJoin(Top.out, sanitize_filename(Top.title)), FALSE)
    /\ UNCHANGED <<remote, files, dirs, aborted, raised, writes, unstable, arg, ret, net>>

process_page_return ==
    /\ Running("page", "loop")
    /\ Top.kids = <<>>
    /\ stack' = Pop
    /\ UNCHANGED <<remote, files, dirs, aborted, raised, calls, writes, unstable,
                   arg, ret, net>>

\* databases.retrieve raises
process_database_retrieve_fails ==
    /\ Running("db", "retrieve")
    /\ CatchRetrieveFailure("dbmeta")

\* databases.retrieve returns a database whose title list is empty: [0] raises
process_database_title_fails ==
    /\ Running("db", "retrieve")
    /\ Database(NodeOf(Top.id)).title = <<>>
    /\ Abort("dbtitle")

\* databases.query raises
process_database_query_fails ==
    /\ Running("db", "retrieve")
    /\ Database(NodeOf(Top.id)).title # <<>>
    /\ Abort("query")

RecordBlocks(records) == [i \in 1..Len(records) |-> Block("record", records[i].id, <<>>)]

\* retrieve and query return: the folder is made and the CSV exported
process_database_export ==
    /\ Running("db", "retrieve")
    /\ Database(NodeOf(Top.id)).title # <<>>
    /\ LET n == NodeOf(Top.id)
           title == Database(n).title[1]
           records == databases_query(RecordSource(n))
           db_dir == PathJoin(Top.out, sanitize_filename(title))
       IN  /\ dirs' = Mkdir(dirs, db_dir)
           /\ files' = export_database_to_csv(records, title, RemoveHyphens(Top.id),
                                              Top.out, files)
           /\ stack' = [stack EXCEPT ![Len(stack)].pc = "loop",
                                     ![Len(stack)].title = title,
                                     ![Len(stack)].kids = RecordBlocks(records)]
    /\ UNCHANGED <<remote, aborted, raised, calls, writes, unstable, arg, ret, net>>

process_database_recurse ==
    /\ Running("db", "loop")
    /\ Top.kids # <<>>
    /\ Call("page", PathJoin(Top.out, sanitize_filename(Top.title)), TRUE)
    /\ UNCHANGED <<remote, files, dirs, aborted, raised, writes, unstable, arg, ret, net>>

process_database_return ==
    /\ Running("db", "loop")
    /\ Top.kids = <<>>
    /\ stack' = Pop
    /\ UNCHANGED <<remote, files, dirs, aborted, raised, calls, writes, unstable,
                   arg, ret, net>>

Idle == [kind |-> "none"]

\* main(): OUTPUT_DIR is made and process_page(ROOT_PAGE_ID, OUTPUT_DIR) called
Init ==
    /\ remote \in [nrec : 0..MaxRecords, dbTitled : BOOLEAN, splitTitle : BOOLEAN]
    /\ stack = <<Frame("page", ROOT_PAGE_ID, OUTPUT_DIR, FALSE)>>
    /\ files = <<>>
    /\ dirs = Mkdir({}, OUTPUT_DIR)
    /\ aborted = FALSE
    /\ raised = {}
    /\ calls = [n \in Nodes |-> IF n = "R" THEN 1 ELSE 0]
    /\ writes = [n \in Nodes |-> 0]
    /\ unstable = FALSE
    /\ arg = Idle
    /\ ret = <<>>
    /\ net = 0

Next ==
    \/ process_page_retrieve_fails
    \/ process_page_content_fails
    \/ process_page_write
    \/ process_page_scan_fails
    \/ process_page_scan
    \/ process_page_recurse_page
    \/ process_page_recurse_database
    \/ process_page_return
    \/ process_database_retrieve_fails
    \/ process_database_title_fails
    \/ process_database_query_fails
    \/ process_database_export
    \/ process_database_recurse
    \/ process_database_return

Spec == Init /\ [][Next]_vars


-----------------------------------------------------------------------------
(* Vocabulary of the properties of a run *)

Done == stack = <<>>

Present == PageNodes \cup {"D"} \cup {RecName[i] : i \in 1..remote.nrec}

ParentOf(n) ==
    CASE n \in {"A", "D", "B"} -> "R"
      [] n = "E" -> "A"
      [] n = "R" -> "R"
      [] OTHER -> "D"

RECURSIVE Ancestors(_)
Ancestors(n) == IF n = "R" THEN {} ELSE {ParentOf(n)} \cup Ancestors(ParentOf(n))

Descendants(n) == {m \in Present : n \in Ancestors(m)}

TitleFetched(n) ==
    IF n = "D" THEN (IF Database(n).title = <<>> THEN <<>> ELSE Database(n).title[1])
    ELSE get_page_title(Page(n))

\* the directory the file of n is written into, and the one its children go to
RECURSIVE DirOf(_)
DirOf(n) ==
    IF n = "R" THEN OUTPUT_DIR
    ELSE PathJoin(DirOf(ParentOf(n)), sanitize_filename(TitleFetched(ParentOf(n))))

SubDirOf(n) == PathJoin(DirOf(n), sanitize_filename(TitleFetched(n)))

DocOf(n) == PathJoin(DirOf(n), page_filename(TitleFetched(n), IdStr(n)))

CsvOf(n) == PathJoin(DirOf(n), csv_filename(TitleFetched(n), RemoveHyphens(IdStr(n))))

HasDoc(n) == DocOf(n) \in DOMAIN files

Kinds == {e[1] : e \in raised}

Failed(kind, n) == <<kind, n>> \in raised

FetchFailures == {"meta", "content", "scan", "dbmeta", "query"}

\* (C1) When pages.retrieve raises for a node, process_page writes no file for
\* it, makes no sub-directory for it, visits none of its descendants and
\* returns normally: while metadata retrievals are the only calls that fail the
\* run never aborts, and once it is over (the listings having been stable)
\* every node whose own retrieval and whose ancestors' retrievals succeeded has
\* its file, the siblings of a failed node included.
C1_MetadataFailureIsolated ==
    Kinds \subseteq {"meta"} =>
        /\ ~aborted
        /\ \A n \in Present \ {"D"} :
              Failed("meta", n) =>
                  /\ writes[n] = 0
                  /\ ~HasDoc(n)
                  /\ SubDirOf(n) \notin dirs
                  /\ \A m \in Descendants(n) : calls[m] = 0 /\ writes[m] = 0
        /\ (Done /\ ~unstable /\ remote.dbTitled) =>
              \A n \in Present \ {"D"} :
                  (\A m \in Ancestors(n) \cup {n} : ~Failed("meta", m)) => HasDoc(n)

C1_Witness ==
    /\ Done
    /\ ~unstable
    /\ remote.dbTitled
    /\ remote.nrec >= 1
    /\ raised = {<<"meta", "A">>}
    /\ ~HasDoc("A")
    /\ HasDoc("B")
    /\ HasDoc(RecName[1])

\* (C2) Over a stable tree all of whose fetches succeed, a finished run has
\* called process_page / process_database exactly once on every node and has
\* written the file of every page and record exactly once.
C2_EveryNodeExactlyOnce ==
    /\ \A n \in Present : calls[n] <= 1 /\ writes[n] <= 1
    /\ (Done /\ ~unstable /\ Kinds \cap FetchFailures = {}) =>
          \A n \in Present : calls[n] = 1 /\ (n # "D" => writes[n] = 1)


\* the path a link written into a file of directory dir points at: the link is
\* cut at "/" and "%20" reads as a space
Decode(seg) == [i \in 1..Len(seg) |-> IF seg[i] = "%20" THEN " " ELSE seg[i]]

LinkTarget(dir, link) ==
    LET segs == Split(link, "/")
    IN  dir \o [i \in 1..Len(segs) |-> Decode(segs[i])]

DirName(p) == SubSeq(p, 1, Len(p) - 1)

Links(p) ==
    IF files[p].kind # "md" THEN {}
    ELSE {files[p].body[i] : i \in {j \in 1..Len(files[p].body) :
                files[p].body[j].kind \in {"page_link", "database_link"}}}

\* (C4) Every link rendered for a nested page or database has the path
\* sanitize(parentTitle)/sanitize(childTitle)%20<id>.md (.csv), and once the
\* run is over with every fetch having succeeded, a file exists at that path
\* below the directory of the parent's file, inside the sub-directory
\* sanitize(parentTitle).
C4_LinksPointAtFiles ==
    (Done /\ ~aborted /\ ~unstable /\ Kinds \cap FetchFailures = {}) =>
        \A p \in DOMAIN files : \A l \in Links(p) :
            /\ LinkTarget(DirName(p), l.target) \in DOMAIN files
            /\ DirName(LinkTarget(DirName(p), l.target)) \in dirs
            /\ DirName(LinkTarget(DirName(p), l.target))
                  = PathJoin(DirName(p), sanitize_filename(files[p].title))

\* (C5) A content fetch failure of a node (its block listing, the retrieval of
\* a database or its record query raising) stays inside the node: nothing is
\* written for the node, nothing below it is visited, and the failure does not
\* reach the caller, so the run is never aborted by it.
C5_ContentFailureIsolated ==
    (raised # {} /\ Kinds \subseteq {"content", "dbmeta", "query"}) =>
        /\ ~aborted
        /\ \A e \in raised : writes[e[2]] = 0 /\ \A m \in Descendants(e[2]) : calls[m] = 0

DbReturned ==
    /\ calls["D"] = 1
    /\ ~aborted
    /\ ~Failed("dbmeta", "D")
    /\ \A i \in 1..Len(stack) : NodeOf(stack[i].id) # "D"

\* the CSV of D has one data row per record, in the order of the query: row i
\* carries the title of record i in its first column
CsvRowPerRecord ==
    /\ CsvOf("D") \in DOMAIN files
    /\ Len(files[CsvOf("D")].rows) = remote.nrec
    /\ \A i \in 1..remote.nrec : files[CsvOf("D")].rows[i][1] = Flatten(TitleRuns(RecName[i]))

\* (C6, as claimed) Once process_database has returned on a non-empty
\* database, the CSV has one row per fetched record in fetch order and the
\* sub-directory holds one .md document per fetched record.
C6_RowAndDocumentPerRecord ==
    (DbReturned /\ remote.nrec > 0) =>
        /\ CsvRowPerRecord
        /\ \A i \in 1..remote.nrec : HasDoc(RecName[i]) /\ writes[RecName[i]] = 1

\* (C6, amended) Once process_database has returned on a non-empty database,
\* the CSV has one row per fetched record in fetch order, and the
\* sub-directory holds one .md document, written once, for every fetched
\* record whose pages.retrieve succeeded and none for a record whose
\* pages.retrieve raised.
C6_RowPerRecordDocumentPerRetrievedRecord ==
    (DbReturned /\ remote.nrec > 0) =>
        /\ CsvRowPerRecord
        /\ \A i \in 1..remote.nrec :
              /\ DirName(DocOf(RecName[i])) = SubDirOf("D")
              /\ IF Failed("meta", RecName[i])
                 THEN ~HasDoc(RecName[i]) /\ writes[RecName[i]] = 0
                 ELSE HasDoc(RecName[i]) /\ writes[RecName[i]] = 1

C6_Witness ==
    /\ DbReturned
    /\ remote.nrec >= 2
    /\ Failed("meta", RecName[1])
    /\ ~HasDoc(RecName[1])
    /\ HasDoc(RecName[2])
    /\ Len(files[CsvOf("D")].rows) = remote.nrec

Binaries == {p \in DOMAIN files : files[p].kind = "bin"}

\* (C8, as claimed) Every downloaded binary is stored in the one images/
\* directory at the export root, and no other directory is named images.
C8_ImagesAtExportRoot ==
    /\ \A p \in Binaries : DirName(p) = PathJoin(OUTPUT_DIR, <<"images">>)
    /\ \A d \in dirs : d[Len(d)] = <<"images">> => d = PathJoin(OUTPUT_DIR, <<"images">>)

\* (C8, amended) Every downloaded binary is stored in the images/ directory of
\* the output directory of the page whose image block triggered the download,
\* the directory that page's own .md file is written into: that file, once
\* written, names the binary as images/<filename>.
C8_ImagesBesideThePage ==
    \A p \in Binaries :
        /\ Len(p) >= 3
        /\ p[Len(p) - 1] = <<"images">>
        /\ \E q \in DOMAIN files :
              /\ files[q].kind = "md"
              /\ DirName(q) = DirName(DirName(p))
              /\ \E i \in 1..Len(files[q].body) :
                    /\ files[q].body[i].kind = "image"
                    /\ files[q].body[i].target = <<"images", "/">> \o p[Len(p)]

C8_Witness ==
    /\ Done
    /\ \E p \in Binaries : DirName(p) = PathJoin(SubDirOf("A"), <<"images">>)
    /\ \E p \in Binaries : DirName(p) = PathJoin(OUTPUT_DIR, <<"images">>)

EndsWith(s, t) == Len(s) >= Len(t) /\ SubSeq(s, Len(s) - Len(t) + 1, Len(s)) = t

\* the nested nodes the written file of n refers to: those whose id closes the
\* target of a page or database link of the file
Referenced(n) ==
    {m \in Nodes : \E l \in Links(DocOf(n)), ext \in {".md", ".csv"} :
        EndsWith(l.target, <<"%20">> \o RemoveHyphens(IdStr(m)) \o <<ext>>)}

\* the nested nodes of n that process_page / process_database was called on
DescendedInto(n) == {m \in Nodes : m # n /\ ParentOf(m) = n /\ calls[m] > 0}

\* (C11) The children process_page descends into are those of the listing that
\* was rendered into the node's file: once a run is over in which nothing but
\* the listing after the write has changed or failed, every written page has
\* been descended into exactly at the nested pages and databases its file
\* links to.
C11_DescendsIntoRenderedReferences ==
    (Done /\ Kinds \subseteq {"scan"}) =>
        \A n \in PageNodes : HasDoc(n) => DescendedInto(n) = Referenced(n)


-----------------------------------------------------------------------------
(* Operations exercised on their own *)

\* the variables of the traversal, at rest
NoRun ==
    /\ remote = [nrec |-> 0, dbTitled |-> TRUE, splitTitle |-> FALSE]
    /\ stack = <<>>
    /\ aborted = FALSE
    /\ raised = {}
    /\ calls = [n \in Nodes |-> 0]
    /\ writes = [n \in Nodes |-> 0]
    /\ unstable = FALSE

(* Listings: a source of N responses, has_more true on all but the last *)

Item(k) == [type |-> "table_row", item |-> k]

RECURSIVE SourceOf(_, _, _)
SourceOf(sizes, i, offset) ==
    IF i > Len(sizes) THEN <<>>
    ELSE <<Response([k \in 1..sizes[i] |-> Item(offset + k)], i < Len(sizes), i + 1)>>
         \o SourceOf(sizes, i + 1, offset + sizes[i])

ListingSources ==
    UNION {{SourceOf(sizes, 1, 0) : sizes \in [1..n -> 1..MaxItems]} : n \in 1..MaxPages}

AllItems(src) == Flatten([i \in 1..Len(src) |-> src[i].results])

Listed(op) == \E i \in 1..Len(ret) : ret[i].op = op

Use(op, used) ==
    /\ arg.kind = "listing"
    /\ ~Listed(op)
    /\ ret' = Append(ret, [op |-> op, used |-> used])
    /\ UNCHANGED <<runVars, files, dirs, arg, net>>

\* fetch_page_content / process_page: blocks = get_page_children(page_id)
list_page_children == Use("get_page_children", get_page_children(arg.pages))

\* get_page_comments: the comments its rendering loops over
list_page_comments == Use("get_page_comments", comments_list(arg.pages))

\* process_database: the records handed to the CSV export and to the loop
list_database_records == Use("process_database", databases_query(arg.pages))

RowItems(lines) ==
    LET rows == SelectSeq(lines, LAMBDA l : l.line = "row")
    IN  [i \in 1..Len(rows) |-> Item(rows[i].item)]

\* convert_table_block: the rows its rendering is made of
list_table_rows == Use("convert_table_block", RowItems(convert_table_block(arg.pages, TRUE)))

InitList ==
    /\ NoRun
    /\ files = <<>>
    /\ dirs = {}
    /\ arg \in {[kind |-> "listing", pages |-> src] : src \in ListingSources}
    /\ ret = <<>>
    /\ net = 0

NextList ==
    \/ list_page_children
    \/ list_page_comments
    \/ list_database_records
    \/ list_table_rows

SpecList == InitList /\ [][NextList]_vars

\* (C3) Every listing the exporter uses (blocks, comments, records, table
\* rows) is drained: what the caller works on is the concatenation of the
\* items of all N responses, in order, each once.
C3_ListingsDrained ==
    \A i \in 1..Len(ret) : ret[i].used = AllItems(arg.pages)

(* Tabular export: records whose property sets differ *)

PoolField(k, i) ==
    CASE k = 1 -> Field(<<"Num">>, Prop("number", <<ToString(i)>>))
      [] k = 2 -> Field(<<"Name">>, TitleProp(<< <<"r">>, <<ToString(i)>> >>))
      [] OTHER -> Field(<<"T", "|">>, Prop("multi_select", <<"x">>))

RecordWith(ks, i) ==
    [id |-> IdStr(RecName[i]),
     properties |-> Flatten([k \in 1..3 |-> IF k \in ks THEN <<PoolField(k, i)>> ELSE <<>>])]

RecordLists ==
    UNION {{[i \in 1..n |-> RecordWith(kss[i], i)] : kss \in [1..n -> SUBSET (1..3)]}
           : n \in 1..MaxCsvRecords}

CsvTitle == <<"D", "/", "b">>

\* export_database_to_csv(records, title, db_id, OUTPUT_DIR)
export_csv ==
    /\ arg.kind = "records"
    /\ ret = <<>>
    /\ files' = export_database_to_csv(arg.records, CsvTitle, RemoveHyphens(IdStr("D")),
                                       OUTPUT_DIR, files)
    /\ ret' = <<"exported">>
    /\ UNCHANGED <<runVars, arg, dirs, net>>

InitCsv ==
    /\ NoRun
    /\ files = <<>>
    /\ dirs = Mkdir({}, OUTPUT_DIR)
    /\ arg \in {[kind |-> "records", records |-> rs] : rs \in RecordLists}
    /\ ret = <<>>
    /\ net = 0

NextCsv == export_csv

SpecCsv == InitCsv /\ [][NextCsv]_vars

HasProperty(record, name) ==
    \E i \in 1..Len(record.properties) : record.properties[i].name = name

ExportedCsv == files[PathJoin(OUTPUT_DIR, csv_filename(CsvTitle, RemoveHyphens(IdStr("D"))))]

\* (C7) The columns are those of the first record, and a later record that has
\* no property of a column's name gets the empty string in that column.
C7_MissingColumnIsEmptyCell ==
    ret # <<>> =>
        /\ ExportedCsv.header = csv_headers(arg.records[1])
        /\ \A i \in 2..Len(arg.records) : \A c \in 1..Len(ExportedCsv.header) :
              ~HasProperty(arg.records[i], ExportedCsv.header[c])
                  => ExportedCsv.rows[i][c] = <<>>


(* Asset fetcher: the same URL fetched again and again into one directory *)

Url(path) == [host |-> "https://s3", path |-> path]

Urls ==
    { Url(<<"/", "u", "1", "/", "a", "%3A", "b", ".png">>),
      Url(<<"/", "b", "/", "u", "2", "/", "c", "%20", "d">>),
      Url(<<"/", "u", "3", "/", "e", "%2F", "f">>),
      Url(<<"/", "g">>),
      Url(<<"/", "u", "4", "/">>),
      Url(<<>>),
      Url(<<"h", ".png">>) }

OutputDirs == {OUTPUT_DIR, PathJoin(OUTPUT_DIR, <<"R", "t">>)}

ImagePath(url, output_dir) == PathJoin(images_dir(output_dir), image_filename(url))

Fetch(ok) ==
    LET got == download_image(arg.url, arg.out, files, dirs, ok)
    IN  /\ arg.kind = "fetch"
        /\ Len(ret) < MaxFetches
        /\ files' = got.files
        /\ dirs' = got.dirs
        /\ ret' = Append(ret, [value |-> got.ret, issued |-> got.issued, wrote |-> got.wrote,
                               existed |-> ImagePath(arg.url, arg.out) \in DOMAIN files])
        /\ net' = net + (IF got.issued THEN 1 ELSE 0)
        /\ UNCHANGED <<runVars, arg>>

\* the file is there already: the download is skipped
download_image_skips ==
    /\ arg.kind = "fetch"
    /\ ImagePath(arg.url, arg.out) \in DOMAIN files
    /\ Fetch(TRUE)

\* the file is not there and requests.get succeeds
download_image_downloads ==
    /\ arg.kind = "fetch"
    /\ ImagePath(arg.url, arg.out) \notin DOMAIN files
    /\ Fetch(TRUE)

\* the file is not there and requests.get or raise_for_status raises
download_image_fails ==
    /\ arg.kind = "fetch"
    /\ ImagePath(arg.url, arg.out) \notin DOMAIN files
    /\ Fetch(FALSE)

InitImg ==
    /\ NoRun
    /\ arg \in {[kind |-> "fetch", url |-> u, out |-> d] : u \in Urls, d \in OutputDirs}
    /\ \E rerun \in BOOLEAN :
          /\ files = IF rerun THEN WriteFile(<<>>, ImagePath(arg.url, arg.out), Binary(arg.url))
                     ELSE <<>>
          /\ dirs = IF rerun THEN Mkdir({}, images_dir(arg.out)) ELSE Mkdir({}, arg.out)
    /\ ret = <<>>
    /\ net = 0

NextImg ==
    \/ download_image_skips
    \/ download_image_downloads
    \/ download_image_fails

SpecImg == InitImg /\ [][NextImg]_vars

Writes == Cardinality({i \in 1..Len(ret) : ret[i].wrote})

\* (C9, as claimed) Fetching one URL twice into one directory writes the
\* binary at most once and returns the same local path
\* images/<identifier>_<sanitizedName> both times, whatever the outcome of the
\* download attempts; when the file exists already no download is issued.
C9_SamePathBothTimes ==
    /\ Writes <= 1
    /\ \A i \in 1..Len(ret) : ret[i].value = LocalImagePath(arg.url)
    /\ \A i \in 1..Len(ret) : ret[i].existed => ~ret[i].issued

\* (C9, amended) Fetching one URL repeatedly into one directory writes the
\* binary at most once.  A fetch returns the local path
\* images/<identifier>_<sanitizedName>, except that a fetch whose download
\* fails returns the URL unchanged and writes nothing.  When the file exists
\* already no download is issued; so once one fetch has returned the local
\* path, every later fetch returns that same path without downloading.
C9_WrittenOnceSamePathOnceStored ==
    /\ Writes <= 1
    /\ net = Cardinality({i \in 1..Len(ret) : ret[i].issued})
    /\ \A i \in 1..Len(ret) :
          /\ ret[i].existed => ~ret[i].issued /\ ~ret[i].wrote
          /\ IF ret[i].issued /\ ~ret[i].wrote
             THEN ret[i].value = UrlStr(arg.url) /\ ret[i].value # LocalImagePath(arg.url)
             ELSE ret[i].value = LocalImagePath(arg.url)
          /\ ret[i].value = LocalImagePath(arg.url) =>
                /\ ImagePath(arg.url, arg.out) \in DOMAIN files
                /\ \A j \in (i + 1)..Len(ret) :
                      ret[j].value = ret[i].value /\ ~ret[j].issued

C9_Witness ==
    /\ Len(ret) >= 2
    /\ ret[1].issued /\ ret[1].wrote
    /\ ~ret[2].issued
    /\ ret[1].value = ret[2].value
    /\ ret[2].value = LocalImagePath(arg.url)

(* Property values of every type, present, null and missing *)

PropValues == { <<>>, << <<"a">> >>, << <<"a">>, <<"b">> >>, << <<"true">> >>,
                << <<>>, <<"i", "d">> >> }

SubTypes(t) ==
    CASE t = "formula" -> {"string", "number", "boolean", "date", "other"}
      [] t = "rollup" -> {"number", "array", "other"}
      [] OTHER -> {""}

PropInputs ==
    {[type |-> t, sub |-> u, has |-> h, val |-> v] :
        t \in PropTypes \cup {"button", "None"}, u \in {"", "string", "number", "boolean",
        "date", "array", "other"}, h \in Presence, v \in PropValues}

extract ==
    /\ arg.kind = "prop"
    /\ ret = <<>>
    /\ ret' = <<extract_property_value(arg.prop)>>
    /\ UNCHANGED <<runVars, files, dirs, arg, net>>

InitProp ==
    /\ NoRun
    /\ files = <<>>
    /\ dirs = {}
    /\ arg \in {[kind |-> "prop", prop |-> q] :
                  q \in {x \in PropInputs : /\ x.sub \in SubTypes(x.type)
                                            /\ x.has # "val" => x.val = <<>>}}
    /\ ret = <<>>
    /\ net = 0

NextProp == extract

SpecProp == InitProp /\ [][NextProp]_vars

\* (C10) extract_property_value fails on no property of the closed
\* enumeration of types, returns the empty string for every one of them whose
\* value field is missing or null, and returns the placeholder "[<type>]" for
\* an unrecognized type only.
C10_AbsentValueIsEmptyString ==
    ret # <<>> =>
        /\ arg.prop.type \in PropTypes => ~ret[1].raised
        /\ (arg.prop.type \in PropTypes /\ arg.prop.has # "val") => ret[1].value = <<>>
        /\ (ret[1].value = <<"[", arg.prop.type, "]">>) <=> (arg.prop.type \notin PropTypes)


====
